---------------------------- MODULE Spec2Model ----------------------------
(***************************************************************************)
(* Model of solution/calculate_reimbursement.py: one command-line call of  *)
(* the reimbursement rule engine, stage by stage.                          *)
(*                                                                         *)
(* Number representation.  The program computes in binary floating point.  *)
(* The model computes exactly, in fixed point:                             *)
(*   - days and miles are whole numbers, receipts is a number of cents;    *)
(*   - every money amount (base, mileage, receipt_component, total) is a   *)
(*     whole number of units of 1/400 cent (1/40000 dollar).  A receipt    *)
(*     in cents times a rate in whole percent, times one multiplier in     *)
(*     twentieths, is a whole number of such units, and no path of the     *)
(*     program applies two multipliers (see ExactArithmetic).              *)
(*   - miles/days and receipts/days are only ever compared with            *)
(*     constants; "x / days < c" is modelled as "x < c * days".            *)
(* The output conversion f"{total:.2f}" rounds to the nearest cent.  When  *)
(* the exact amount lies halfway between two cents, the direction the      *)
(* program rounds depends on the representation error of the double; the   *)
(* model takes it as the unknown halfUp, fixed for a behaviour.  In the    *)
(* same way int(receipts * 100) is the number of cents or, when the double *)
(* nearest the decimal amount lies below it, one less: the unknown fpLow.  *)
(***************************************************************************)
EXTENDS Integers, Sequences, FiniteSets

\* ------------------------------------------------------------------ bounds
MaxDays == 7
MaxMiles == 12000

\* ------------------------------------------------------------------- units
CentU == 20 * 20                \* units per cent
D(n) == n * 100                 \* dollars -> cents
USD(n) == n * 100 * CentU       \* dollars -> units
\* cents * (p / 100), in units: the product of an amount and a literal rate
Pct(cents, p) == cents * p * (CentU \div 100)
\* units * (p / 100), in units, rounded down: a multiplier on a component
MulPct(x, p) == (x \div 100) * p + ((x % 100) * p) \div 100
\* x > cents * (h / 2), with x in units, without forming the product
Exceeds(x, cents, h) ==
    LET c == (CentU \div 2) * h
    IN  \/ x \div c > cents
        \/ (x \div c = cents /\ x % c > 0)
Min(a, b) == IF a <= b THEN a ELSE b

\* ----------------------------------------------------- program constants
\* amounts in dollars, rates and multipliers in percent
SUPER_PRODUCTIVITY_RECEIPT_CAP == 1200
SUPER_PRODUCTIVITY_POST_CAP_RATE == 20
MULTIDAY_RECEIPT_CAP == 1500
MULTIDAY_POST_CAP_RATE == 20
FIVE_DAY_SPENDING_LIMIT == 200
MEDIUM_TRIP_SPENDING_LIMIT == 120
LONG_TRIP_SPENDING_LIMIT == 90
MEDIUM_TRIP_OVERSPEND_MULTIPLIER == 75
LONG_TRIP_OVERSPEND_MULTIPLIER == 65
HIGH_MILEAGE_EXEMPTION_THRESHOLD == 900

VARIABLES
    program,            \* the script that is run, by the name of its file
    argc,               \* len(sys.argv)
    numeric,            \* do int(argv[1]), float(argv[2]), float(argv[3]) parse
    days, miles, receipts,
    isatty,             \* sys.stdout.isatty()
    halfUp,             \* direction of the output rounding at an exact half cent
    fpLow,              \* does the double product receipts * 100 fall short of the cents
    overflows,          \* is the double product receipts * 100 infinite (receipts of
                        \* about 1.8e306 and more; receipts then holds the largest
                        \* amount of the model)
    pc,
    base, mileage, receipt_component, total,
    stdout, exit_code,
    zone,               \* branch of the receipt chain that assigned receipt_component
    sched,              \* receipt_component as the receipt chain assigned it
    corr,               \* what the multi-day cap added to receipt_component
    uncapped,           \* total before the reasonableness check
    prev,               \* the previous call of the program, when there was one
    trip_type           \* metadata['trip_type'] of the metadata variant

vars == <<program, argc, numeric, days, miles, receipts, isatty, halfUp, fpLow,
          overflows, pc, base, mileage, receipt_component, total, stdout,
          exit_code, zone, sched, corr, uncapped, prev, trip_type>>

\* -------------------------------------------------------------- the inputs
LongDays == {10, 11, 120}
DaysSet == (1 .. MaxDays) \cup LongDays
\* miles per day at and next to the thresholds of the rules
MpdPoints == {<<0, 0>>, <<80, -1>>, <<80, 0>>, <<100, -1>>, <<100, 0>>,
              <<100, 1>>, <<160, -1>>, <<160, 0>>, <<400, 0>>, <<400, 1>>,
              <<600, -1>>, <<600, 0>>, <<900, 0>>, <<900, 1>>, <<1000, 0>>,
              <<1000, 1>>}
\* total miles on both sides of the threshold that is not a rate per day
MilesPoints ==
    {HIGH_MILEAGE_EXEMPTION_THRESHOLD - 1, HIGH_MILEAGE_EXEMPTION_THRESHOLD}
MilesFor(d) ==
    {m \in {p[1] * d + p[2] : p \in MpdPoints} \cup MilesPoints :
        m <= MaxMiles}
ReceiptsFor(d) ==
    {0, 1000, 2999, 3000, 4999, 5000, 9999, 10000, 19949, 19950, 20000,
     40000, 50000, 60000, 80000, 100000, 100001, 120000, 150000, 150001,
     150003, 160000, 200000, 250000, 2400000}
    \cup {d * 1500 - 1, d * 1500, d * 9000, d * 9000 + 1, d * 10000,
          d * 12000, d * 12000 + 1,
          d * 15000, d * 15000 + 1, d * 20000 + 1}

NoPrev == [valid |-> FALSE, days |-> 0, miles |-> 0, receipts |-> 0,
           isatty |-> FALSE, stdout |-> << >>, exit_code |-> 0,
           mileage |-> 0, total |-> 0, zone |-> "none"]

Fresh ==
    /\ pc = "start"
    /\ base = 0 /\ mileage = 0 /\ receipt_component = 0 /\ total = 0
    /\ stdout = << >> /\ exit_code = -1
    /\ zone = "none" /\ sched = 0 /\ corr = 0 /\ uncapped = 0

\* the worked examples of the design: <<days, miles, receipts>>
Scenarios == {<<1, 50, 1000>>, <<5, 900, 30000>>}

ValidArgv ==
    /\ argc = 4 /\ numeric = TRUE
    /\ \/ /\ days \in DaysSet
          /\ miles \in MilesFor(days)
          /\ receipts \in ReceiptsFor(days)
       \/ \E t \in Scenarios :
             days = t[1] /\ miles = t[2] /\ receipts = t[3]

\* calls the program cannot serve: wrong count, text, values out of range
InvalidArgv ==
    \/ /\ argc \in {1, 3, 5} /\ numeric = TRUE
       /\ days = 1 /\ miles = 0 /\ receipts = 0
    \/ /\ argc = 4 /\ numeric = FALSE
       /\ days = 1 /\ miles = 0 /\ receipts = 0
    \/ /\ argc = 4 /\ numeric = TRUE
       /\ \/ days \in {-1, 0} /\ miles \in {0, 50} /\ receipts \in {0, 10000}
          \/ days \in {1, 5} /\ miles = -1 /\ receipts \in {0, 10000}
          \/ days \in {1, 5} /\ miles \in {0, 50} /\ receipts = -1

\* receipts / 100 is a double exactly when receipts is a multiple of 25 cents;
\* otherwise the product receipts * 100 may come out just below the cents
FpLowFor(r) == IF r % 25 = 0 THEN {FALSE} ELSE BOOLEAN

\* a double above about 1.8e306 times 100 is infinite; the largest amount of
\* the model stands for such receipts as well
OverflowsFor(r) == IF r = D(24000) THEN BOOLEAN ELSE {FALSE}

Init ==
    /\ ValidArgv \/ InvalidArgv
    /\ isatty \in BOOLEAN
    /\ halfUp \in BOOLEAN
    /\ fpLow \in FpLowFor(receipts)
    /\ overflows \in OverflowsFor(receipts)
    /\ Fresh
    /\ prev = NoPrev
    /\ program = "calculate_reimbursement" /\ trip_type = "none"

\* ------------------------------------------------- the rules, as functions
\* mutant of BasePerDiem: the 105 band ends at two days
BasePerDiemShortBand(d) ==
    IF d = 1 THEN USD(120)
    ELSE IF d <= 2 THEN d * USD(105)
    ELSE IF d <= 6 THEN d * USD(95)
    ELSE IF d <= 10 THEN d * USD(85)
    ELSE d * USD(75)

\* lines 34-43
BasePerDiem(d) ==
    IF d = 1 THEN USD(120)
    ELSE IF d <= 3 THEN d * USD(105)
    ELSE IF d <= 6 THEN d * USD(95)
    ELSE IF d <= 10 THEN d * USD(85)
    ELSE d * USD(75)

\* mutant of Mileage: the second tier forgets what the first 100 miles earned
MileageSecondTierFromZero(m) ==
    IF m <= 100 THEN Pct(D(m), 58)
    ELSE IF m <= 500 THEN Pct(D(m - 100), 45)
    ELSE Pct(D(100), 58) + Pct(D(400), 45) + Pct(D(m - 500), 35)

\* lines 46-51
Mileage(m) ==
    IF m <= 100 THEN Pct(D(m), 58)
    ELSE IF m <= 500 THEN Pct(D(100), 58) + Pct(D(m - 100), 45)
    ELSE Pct(D(100), 58) + Pct(D(400), 45) + Pct(D(m - 500), 35)

\* line 58: receipts too low to count
NearZero(d, r) == r < D(50) \/ (d >= 10 /\ r < D(15) * d)

\* mutant of Zone: the Extreme test is not strict
ZoneExtremeFrom1000(d, m, r) ==
    IF NearZero(d, r) THEN "Ignored"
    ELSE IF m >= 1000 * d THEN "Extreme"
    ELSE IF m >= 600 * d /\ m <= 900 * d THEN "SuperProductivity"
    ELSE IF m > 400 * d THEN "HighEfficiency"
    ELSE IF m >= 160 * d THEN "SweetSpot"
    ELSE IF m > 100 * d THEN "Standard"
    ELSE "LowEfficiency"

\* mutant of Zone: the SweetSpot branch starts at 180 miles a day
ZoneSweetSpotFrom180(d, m, r) ==
    IF NearZero(d, r) THEN "Ignored"
    ELSE IF m > 1000 * d THEN "Extreme"
    ELSE IF m >= 600 * d /\ m <= 900 * d THEN "SuperProductivity"
    ELSE IF m > 400 * d THEN "HighEfficiency"
    ELSE IF m >= 180 * d THEN "SweetSpot"
    ELSE IF m > 100 * d THEN "Standard"
    ELSE "LowEfficiency"

\* the branch of the if/elif chain of lines 58-141 that is taken
Zone(d, m, r) ==
    IF NearZero(d, r) THEN "Ignored"
    ELSE IF m > 1000 * d THEN "Extreme"
    ELSE IF m >= 600 * d /\ m <= 900 * d THEN "SuperProductivity"
    ELSE IF m > 400 * d THEN "HighEfficiency"
    ELSE IF m >= 160 * d THEN "SweetSpot"
    ELSE IF m > 100 * d THEN "Standard"
    ELSE "LowEfficiency"

\* lines 66-85
SuperProductivitySchedule(d, r) ==
    IF d = 1
    THEN IF r <= D(800) THEN Pct(r, 120)
         ELSE IF r <= D(SUPER_PRODUCTIVITY_RECEIPT_CAP)
              THEN Pct(D(800), 120) + Pct(r - D(800), 90)
         ELSE IF r <= D(1200)
              THEN Pct(D(800), 120)
                   + Pct(D(SUPER_PRODUCTIVITY_RECEIPT_CAP) - D(800), 90)
                   + Pct(r - D(SUPER_PRODUCTIVITY_RECEIPT_CAP), 40)
         ELSE Pct(D(800), 120)
              + Pct(D(SUPER_PRODUCTIVITY_RECEIPT_CAP) - D(800), 90)
              + Pct(D(400), 40) + Pct(r - D(1200), 10)
    ELSE IF r <= D(800) THEN Pct(r, 120)
         ELSE IF r <= D(1600) THEN Pct(D(800), 120) + Pct(r - D(800), 90)
         ELSE IF r <= D(2000)
              THEN Pct(D(800), 120) + Pct(D(800), 90) + Pct(r - D(1600), 60)
         ELSE Pct(D(800), 120) + Pct(D(800), 90) + Pct(D(400), 60)
              + Pct(r - D(2000), 30)

\* lines 89-98
HighEfficiencySchedule(r) ==
    IF r <= D(400) THEN Pct(r, 40)
    ELSE IF r <= D(1000) THEN Pct(D(400), 40) + Pct(r - D(400), 25)
    ELSE IF r <= D(1500)
         THEN Pct(D(400), 40) + Pct(D(600), 25) + Pct(r - D(1000), 15)
    ELSE IF r <= D(2000)
         THEN Pct(D(400), 40) + Pct(D(600), 25) + Pct(D(500), 15)
              + Pct(r - D(1500), 10)
    ELSE Pct(D(400), 40) + Pct(D(600), 25) + Pct(D(500), 15)
         + Pct(D(500), 10) + Pct(r - D(2000), 5)

\* mutant of SweetSpotSchedule: the long and the short trip swap their rates
SweetSpotScheduleSwapped(d, r) ==
    IF r <= D(600) THEN Pct(r, 80)
    ELSE IF r <= D(1200) THEN Pct(D(600), 80) + Pct(r - D(600), 65)
    ELSE IF d < 7
         THEN IF r <= D(2000)
              THEN Pct(D(600), 80) + Pct(D(600), 65) + Pct(r - D(1200), 60)
              ELSE Pct(D(600), 80) + Pct(D(600), 65) + Pct(D(800), 60)
                   + Pct(r - D(2000), 30)
    ELSE IF r <= D(2000)
         THEN Pct(D(600), 80) + Pct(D(600), 65) + Pct(r - D(1200), 50)
    ELSE Pct(D(600), 80) + Pct(D(600), 65) + Pct(D(800), 50)
         + Pct(r - D(2000), 20)

\* lines 102-116
SweetSpotSchedule(d, r) ==
    IF r <= D(600) THEN Pct(r, 80)
    ELSE IF r <= D(1200) THEN Pct(D(600), 80) + Pct(r - D(600), 65)
    ELSE IF d >= 7
         THEN IF r <= D(2000)
              THEN Pct(D(600), 80) + Pct(D(600), 65) + Pct(r - D(1200), 60)
              ELSE Pct(D(600), 80) + Pct(D(600), 65) + Pct(D(800), 60)
                   + Pct(r - D(2000), 30)
    ELSE IF r <= D(2000)
         THEN Pct(D(600), 80) + Pct(D(600), 65) + Pct(r - D(1200), 50)
    ELSE Pct(D(600), 80) + Pct(D(600), 65) + Pct(D(800), 50)
         + Pct(r - D(2000), 20)

\* mutant of Buckets: the second limit is the cumulative 1000, not the width
BucketsCumulativeLimit(d) ==
    IF d = 5
    THEN <<[limit |-> D(400), inf |-> FALSE, rate |-> 65],
           [limit |-> D(1000), inf |-> FALSE, rate |-> 45],
           [limit |-> 0, inf |-> TRUE, rate |-> 10]>>
    ELSE <<[limit |-> D(400), inf |-> FALSE, rate |-> 65],
           [limit |-> D(1000), inf |-> FALSE, rate |-> 45],
           [limit |-> 0, inf |-> TRUE, rate |-> 25]>>

\* lines 120-123: (limit in cents, rate in percent); the last limit is inf
Buckets(d) ==
    IF d = 5
    THEN <<[limit |-> D(400), inf |-> FALSE, rate |-> 65],
           [limit |-> D(600), inf |-> FALSE, rate |-> 45],
           [limit |-> 0, inf |-> TRUE, rate |-> 10]>>
    ELSE <<[limit |-> D(400), inf |-> FALSE, rate |-> 65],
           [limit |-> D(600), inf |-> FALSE, rate |-> 45],
           [limit |-> 0, inf |-> TRUE, rate |-> 25]>>

\* lines 124-133: the loop, from bucket i on; bucket_debug collects the slices
RECURSIVE BucketLoop(_, _, _, _, _)
BucketLoop(buckets, i, remaining, acc, bucket_debug) ==
    IF i > Len(buckets)
    THEN [receipt_component |-> acc, bucket_debug |-> bucket_debug,
          remaining |-> remaining]
    ELSE LET b == buckets[i]
             apply == IF b.inf THEN remaining ELSE Min(remaining, b.limit)
             acc2 == acc + Pct(apply, b.rate)
             dbg2 == Append(bucket_debug, [apply |-> apply, rate |-> b.rate])
             rem2 == remaining - apply
         IN  IF rem2 <= 0
             THEN [receipt_component |-> acc2, bucket_debug |-> dbg2,
                   remaining |-> rem2]
             ELSE BucketLoop(buckets, i + 1, rem2, acc2, dbg2)

StandardSchedule(d, r) == BucketLoop(Buckets(d), 1, r, 0, << >>)

\* lines 143-148
LowEfficiencySchedule(r) ==
    IF r <= D(200) THEN Pct(r, 50)
    ELSE IF r <= D(600) THEN Pct(D(200), 50) + Pct(r - D(200), 30)
    ELSE Pct(D(200), 50) + Pct(D(400), 30) + Pct(r - D(600), 15)

\* lines 58-148: what the chain assigns to receipt_component
ReceiptChain(d, m, r) ==
    LET z == Zone(d, m, r)
    IN  IF z = "Ignored" THEN 0
        ELSE IF z = "Extreme" THEN Pct(r, 10)
        ELSE IF z = "SuperProductivity" THEN SuperProductivitySchedule(d, r)
        ELSE IF z = "HighEfficiency" THEN HighEfficiencySchedule(r)
        ELSE IF z = "SweetSpot" THEN SweetSpotSchedule(d, r)
        ELSE IF z = "Standard" THEN StandardSchedule(d, r).receipt_component
        ELSE LowEfficiencySchedule(r)

\* lines 135-139: the lines the Standard branch prints on a terminal
DebugLines(d, m, r, tty) ==
    IF Zone(d, m, r) = "Standard" /\ (r > D(1000) \/ d = 5) /\ tty
    THEN <<[kind |-> "debug", cents |-> 0]>>
         \o [i \in 1 .. Len(StandardSchedule(d, r).bucket_debug) |->
                [kind |-> "debug", cents |-> 0]]
         \o <<[kind |-> "debug", cents |-> 0]>>
    ELSE << >>

\* mutant of FiveDayMultiplier: the bonus is still 1.15
FiveDayMultiplierOldBonus(d, m, r) ==
    IF d # 5 THEN 100
    ELSE IF r <= D(150) * d /\ m >= 80 * d THEN 115
    ELSE IF r <= D(100) * d THEN 105
    ELSE 100

\* lines 152-158: the multiplier of the 5-day rule, in percent
FiveDayMultiplier(d, m, r) ==
    IF d # 5 THEN 100
    ELSE IF r <= D(150) * d /\ m >= 80 * d THEN 110
    ELSE IF r <= D(100) * d THEN 105
    ELSE 100

\* mutant of LowSpendPenalty: high-mileage trips are not exempt
LowSpendPenaltyNoExemption(d, m, r) ==
    IF d = 1
    THEN IF r < D(30) THEN 40 ELSE IF r < D(100) THEN 20 ELSE 0
    ELSE IF d = 2
    THEN IF r < D(50) THEN 20 ELSE 0
    ELSE IF r < D(30) THEN 20 ELSE 0

\* lines 162-173: what the small receipt penalty takes, in dollars
LowSpendPenalty(d, m, r) ==
    IF m < 80 * d
    THEN IF d = 1
         THEN IF r < D(30) THEN 40 ELSE IF r < D(100) THEN 20 ELSE 0
         ELSE IF d = 2
         THEN IF r < D(50) THEN 20 ELSE 0
         ELSE IF r < D(30) THEN 20 ELSE 0
    ELSE 0

\* mutant of CentsPart: the last two digits of the dollars
CentsPartOfDollars(r) == (r \div 100) % 100

\* line 176: int(round((receipts - int(receipts)) * 100))
CentsPart(r) == r % 100

\* line 182: int(receipts * 100) % 7
ReceiptHash(r, low) == (IF low THEN r - 1 ELSE r) % 7

\* lines 195-206: the rate the cap takes back, in percent
LastRate(d, m) ==
    IF m > 1000 * d THEN 10
    ELSE IF m >= 600 * d /\ m <= 900 * d
         THEN IF d > 1 THEN 60 ELSE SUPER_PRODUCTIVITY_POST_CAP_RATE
    ELSE IF m > 400 * d THEN 15
    ELSE IF m >= 160 * d THEN 50
    ELSE IF m >= 100 * d THEN 25
    ELSE 15

\* lines 195-206: the zone each guard of the cap stands for
LastRateZone(d, m) ==
    IF m > 1000 * d THEN "Extreme"
    ELSE IF m >= 600 * d /\ m <= 900 * d THEN "SuperProductivity"
    ELSE IF m > 400 * d THEN "HighEfficiency"
    ELSE IF m >= 160 * d THEN "SweetSpot"
    ELSE IF m >= 100 * d THEN "Standard"
    ELSE "LowEfficiency"

\* mutant of MultiDayCorrection: the cap starts at receipts of 500
MultiDayCorrectionFrom500(d, m, r) ==
    IF d >= 5 /\ r > D(500)
    THEN LET excess == r - D(500)
         IN  Pct(excess, MULTIDAY_POST_CAP_RATE) - Pct(excess, LastRate(d, m))
    ELSE 0

\* lines 189-208: what the multi-day cap adds to receipt_component
MultiDayCorrection(d, m, r) ==
    IF d >= 5 /\ r > D(MULTIDAY_RECEIPT_CAP)
    THEN LET excess == r - D(MULTIDAY_RECEIPT_CAP)
         IN  Pct(excess, MULTIDAY_POST_CAP_RATE) - Pct(excess, LastRate(d, m))
    ELSE 0

\* mutant of OverspendMultiplier: long trips with many miles are not exempt
OverspendMultiplierNoExemption(d, m, r) ==
    IF d = 5
    THEN IF r > D(FIVE_DAY_SPENDING_LIMIT) * d THEN 85 ELSE 100
    ELSE IF d = 6
    THEN IF r > D(MEDIUM_TRIP_SPENDING_LIMIT) * d
         THEN MEDIUM_TRIP_OVERSPEND_MULTIPLIER ELSE 100
    ELSE IF d >= 7
    THEN IF r > D(LONG_TRIP_SPENDING_LIMIT) * d
         THEN LONG_TRIP_OVERSPEND_MULTIPLIER ELSE 100
    ELSE 100

\* lines 212-222: the per-day spending multiplier, in percent
OverspendMultiplier(d, m, r) ==
    IF d = 5
    THEN IF r > D(FIVE_DAY_SPENDING_LIMIT) * d THEN 85 ELSE 100
    ELSE IF d = 6
    THEN IF r > D(MEDIUM_TRIP_SPENDING_LIMIT) * d
         THEN MEDIUM_TRIP_OVERSPEND_MULTIPLIER ELSE 100
    ELSE IF d >= 7
    THEN IF r > D(LONG_TRIP_SPENDING_LIMIT) * d
            /\ m < HIGH_MILEAGE_EXEMPTION_THRESHOLD
         THEN LONG_TRIP_OVERSPEND_MULTIPLIER ELSE 100
    ELSE 100

\* mutant of Softened: the miles test is not strict
SoftenedFrom1000Miles(d, m, r) == d = 1 /\ m >= 1000 /\ r > D(1000)

\* line 225
Softened(d, m, r) == d = 1 /\ m > 1000 /\ r > D(1000)

\* mutant of Reasonable: the cap for receipts >= 1500 is missing
ReasonableWithoutTopCap(t, d, r) ==
    IF r >= D(1000) /\ Exceeds(t, r, 4) THEN Pct(r, 200)
    ELSE IF r >= D(500) /\ Exceeds(t, r, 5) THEN Pct(r, 250)
    ELSE IF r >= D(100) /\ r >= D(15) * d /\ Exceeds(t, r, 8) THEN Pct(r, 400)
    ELSE t

\* mutant of Reasonable: the second and third conditions are in the wrong order
ReasonableWrongOrder(t, d, r) ==
    IF r >= D(1500) /\ Exceeds(t, r, 3) THEN Pct(r, 150)
    ELSE IF r >= D(500) /\ Exceeds(t, r, 5) THEN Pct(r, 250)
    ELSE IF r >= D(1000) /\ Exceeds(t, r, 4) THEN Pct(r, 200)
    ELSE IF r >= D(100) /\ r >= D(15) * d /\ Exceeds(t, r, 8) THEN Pct(r, 400)
    ELSE t

\* lines 234-241: the reasonableness check on total t
Reasonable(t, d, r) ==
    IF r >= D(1500) /\ Exceeds(t, r, 3) THEN Pct(r, 150)
    ELSE IF r >= D(1000) /\ Exceeds(t, r, 4) THEN Pct(r, 200)
    ELSE IF r >= D(500) /\ Exceeds(t, r, 5) THEN Pct(r, 250)
    ELSE IF r >= D(100) /\ r >= D(15) * d /\ Exceeds(t, r, 8) THEN Pct(r, 400)
    ELSE t

\* line 243: f"{total:.2f}", as a number of cents
Format2f(t, up) ==
    LET q == t \div CentU
        rest == t % CentU
    IN  IF 2 * rest > CentU \/ (2 * rest = CentU /\ up) THEN q + 1 ELSE q

\* ------------------------------------------------------ the call, in steps
args == <<program, argc, numeric, days, miles, receipts>>
env == <<isatty, halfUp, fpLow, overflows>>
ghosts == <<zone, sched, corr, uncapped>>
labels == <<trip_type>>

\* mutant of InRange: days = 0 passes
InRangeFromZero == days >= 0 /\ miles >= 0 /\ receipts >= 0

\* line 13
InRange == days > 0 /\ miles >= 0 /\ receipts >= 0

\* lines 5-7: wrong number of arguments
UsageError ==
    /\ pc = "start" /\ argc # 4
    /\ stdout' = Append(stdout, [kind |-> "usage", cents |-> 0])
    /\ exit_code' = 1
    /\ pc' = "exit"
    /\ UNCHANGED <<args, env, ghosts, prev, labels,
                   base, mileage, receipt_component,
                   total>>

\* lines 9-11: int() or float() raises ValueError
ValueError ==
    /\ pc = "start" /\ argc = 4 /\ ~numeric
    /\ exit_code' = 1
    /\ pc' = "exit"
    /\ UNCHANGED <<args, env, ghosts, prev, labels,
                   base, mileage, receipt_component,
                   total, stdout>>

\* line 13: the assert fails
AssertionError ==
    /\ pc = "start" /\ argc = 4 /\ numeric /\ ~InRange
    /\ exit_code' = 1
    /\ pc' = "exit"
    /\ UNCHANGED <<args, env, ghosts, prev, labels,
                   base, mileage, receipt_component,
                   total, stdout>>

\* lines 5-13 pass
ParseArgs ==
    /\ pc = "start" /\ argc = 4 /\ numeric /\ InRange
    /\ pc' = "base"
    /\ UNCHANGED <<args, env, ghosts, prev, labels,
                   base, mileage, receipt_component,
                   total, stdout, exit_code>>

\* lines 33-43
ComputeBase ==
    /\ pc = "base"
    /\ base' = BasePerDiem(days)
    /\ pc' = "mileage"
    /\ UNCHANGED <<args, env, ghosts, prev, labels,
                   mileage, receipt_component, total,
                   stdout, exit_code>>

\* lines 45-55
ComputeMileage ==
    /\ pc = "mileage"
    /\ mileage' = Mileage(miles)
    /\ pc' = "receipts"
    /\ UNCHANGED <<args, env, ghosts, prev, labels,
                   base, receipt_component, total,
                   stdout, exit_code>>

\* lines 57-148
ComputeReceipts ==
    /\ pc = "receipts"
    /\ receipt_component' = ReceiptChain(days, miles, receipts)
    /\ zone' = Zone(days, miles, receipts)
    /\ sched' = receipt_component'
    /\ stdout' = stdout \o DebugLines(days, miles, receipts, isatty)
    /\ pc' = "five_day"
    /\ UNCHANGED <<args, env, corr, uncapped, prev, labels,
                   base, mileage, total,
                   exit_code>>

\* lines 150-158
FiveDayBonus ==
    /\ pc = "five_day"
    /\ base' = IF days = 5 THEN base + USD(75) ELSE base
    /\ receipt_component' =
           MulPct(receipt_component, FiveDayMultiplier(days, miles, receipts))
    /\ pc' = "low_spend"
    /\ UNCHANGED <<args, env, ghosts, prev, labels,
                   mileage, total, stdout, exit_code>>

\* lines 160-173
SmallReceiptPenalty ==
    /\ pc = "low_spend"
    /\ receipt_component' =
           receipt_component - USD(LowSpendPenalty(days, miles, receipts))
    /\ pc' = "digit"
    /\ UNCHANGED <<args, env, ghosts, prev, labels,
                   base, mileage, total, stdout,
                   exit_code>>

\* lines 175-178
RoundingBonus ==
    /\ pc = "digit"
    /\ receipt_component' =
           IF CentsPart(receipts) \in {49, 99}
           THEN receipt_component + USD(8) ELSE receipt_component
    /\ pc' = "calendar"
    /\ UNCHANGED <<args, env, ghosts, prev, labels,
                   base, mileage, total, stdout,
                   exit_code>>

\* line 182: int() of an infinite product raises OverflowError
OverflowError ==
    /\ pc = "calendar" /\ overflows
    /\ exit_code' = 1
    /\ pc' = "exit"
    /\ UNCHANGED <<args, env, ghosts, prev, labels,
                   base, mileage, receipt_component,
                   total, stdout>>

\* lines 180-186
CalendarEffect ==
    /\ pc = "calendar" /\ ~overflows
    /\ receipt_component' =
           IF ReceiptHash(receipts, fpLow) = 1 THEN receipt_component + USD(10)
           ELSE IF ReceiptHash(receipts, fpLow) = 4
                THEN receipt_component - USD(5)
           ELSE receipt_component
    /\ pc' = "multiday"
    /\ UNCHANGED <<args, env, ghosts, prev, labels,
                   base, mileage, total, stdout,
                   exit_code>>

\* lines 188-208
MultiDayCap ==
    /\ pc = "multiday"
    /\ corr' = MultiDayCorrection(days, miles, receipts)
    /\ receipt_component' = receipt_component + corr'
    /\ pc' = "overspend"
    /\ UNCHANGED <<args, env, zone, sched, uncapped, prev, labels,
                   base, mileage,
                   total, stdout, exit_code>>

\* lines 210-222
SpendingMultiplier ==
    /\ pc = "overspend"
    /\ receipt_component' =
           MulPct(receipt_component, OverspendMultiplier(days, miles, receipts))
    /\ pc' = "soften"
    /\ UNCHANGED <<args, env, ghosts, prev, labels,
                   base, mileage, total, stdout,
                   exit_code>>

\* lines 224-227
SoftenPenalty ==
    /\ pc = "soften"
    /\ receipt_component' =
           IF Softened(days, miles, receipts)
           THEN Pct(D(1000), 10) + Pct(receipts - D(1000), 40)
           ELSE receipt_component
    /\ pc' = "total"
    /\ UNCHANGED <<args, env, ghosts, prev, labels,
                   base, mileage, total, stdout,
                   exit_code>>

\* line 230
Total ==
    /\ pc = "total"
    /\ total' = base + mileage + receipt_component
    /\ uncapped' = total'
    /\ pc' = "check"
    /\ UNCHANGED <<args, env, zone, sched, corr, prev, labels, base, mileage,
                   receipt_component, stdout, exit_code>>

\* lines 232-241
ReasonablenessCheck ==
    /\ pc = "check"
    /\ total' = Reasonable(total, days, receipts)
    /\ pc' = "print"
    /\ UNCHANGED <<args, env, ghosts, prev, labels,
                   base, mileage, receipt_component,
                   stdout, exit_code>>

\* line 243, and the normal end of the process
PrintTotal ==
    /\ pc = "print"
    /\ stdout' = Append(stdout, [kind |-> "number",
                                 cents |-> Format2f(total, halfUp)])
    /\ exit_code' = 0
    /\ pc' = "done"
    /\ UNCHANGED <<args, env, ghosts, prev, labels,
                   base, mileage, receipt_component,
                   total>>

Next ==
    \/ UsageError \/ ValueError \/ AssertionError \/ ParseArgs
    \/ ComputeBase \/ ComputeMileage \/ ComputeReceipts
    \/ FiveDayBonus \/ SmallReceiptPenalty \/ RoundingBonus
    \/ OverflowError \/ CalendarEffect
    \/ MultiDayCap \/ SpendingMultiplier \/ SoftenPenalty
    \/ Total \/ ReasonablenessCheck \/ PrintTotal

Spec == Init /\ [][Next]_vars

\* ---------------------------------------------------- two calls in a row
\* what a finished call leaves for comparison with the next one
Summary == [valid |-> TRUE, days |-> days, miles |-> miles,
            receipts |-> receipts, isatty |-> isatty, stdout |-> stdout,
            exit_code |-> exit_code, mileage |-> mileage, total |-> total,
            zone |-> zone]

\* a new process starts with nothing computed and nothing printed
Restart ==
    /\ pc' = "start"
    /\ base' = 0 /\ mileage' = 0 /\ receipt_component' = 0 /\ total' = 0
    /\ stdout' = << >> /\ exit_code' = -1
    /\ zone' = "none" /\ sched' = 0 /\ corr' = 0 /\ uncapped' = 0

\* the same command line again, in any environment
RerunSame ==
    /\ pc = "done" /\ ~prev.valid
    /\ prev' = Summary
    /\ isatty' \in BOOLEAN
    /\ Restart
    /\ UNCHANGED <<args, halfUp, fpLow, overflows, labels>>

\* the same trip with more miles, in the same environment
RerunMoreMiles ==
    /\ pc = "done" /\ ~prev.valid
    /\ prev' = Summary
    /\ miles' \in {m \in MilesFor(days) : m > miles}
    /\ Restart
    /\ UNCHANGED <<program, argc, numeric, days, receipts, env, labels>>

PairDays == {1, 5, 7}
PairReceipts == {1000, 10000, 60000, 100001, 150001, 250000, 2400000}

InitPair ==
    /\ \/ ValidArgv /\ days \in PairDays /\ receipts \in PairReceipts
       \/ InvalidArgv
    /\ isatty \in BOOLEAN
    /\ halfUp \in BOOLEAN
    /\ fpLow \in FpLowFor(receipts)
    /\ overflows \in OverflowsFor(receipts)
    /\ Fresh
    /\ prev = NoPrev
    /\ program = "calculate_reimbursement" /\ trip_type = "none"

NextPair == Next \/ RerunSame \/ RerunMoreMiles

SpecPair == InitPair /\ [][NextPair]_vars

\* ------------------------------------------------------------ vocabulary
PcOrder == <<"start", "base", "mileage", "receipts", "five_day", "low_spend",
             "digit", "calendar", "multiday", "overspend", "soften", "total",
             "check", "print", "done">>
Rank(p) == IF p = "exit" THEN 0 ELSE CHOOSE i \in 1 .. Len(PcOrder) : PcOrder[i] = p
\* the step that leaves control at p has run, and so has every step before it
Reached(p) == Rank(pc) >= Rank(p)
\* the number the call printed last, in cents
Out == stdout[Len(stdout)].cents
SameTrip == prev.days = days /\ prev.miles = miles /\ prev.receipts = receipts

\* The fixed-point arithmetic loses nothing: where a multiplier is applied,
\* the product is a whole number of units.
ExactArithmetic ==
    /\ pc = "five_day" =>
         ((receipt_component % 100) * FiveDayMultiplier(days, miles, receipts))
             % 100 = 0
    /\ pc = "overspend" =>
         ((receipt_component % 100) * OverspendMultiplier(days, miles, receipts))
             % 100 = 0

\* ================================================================= claims

\* C1: for every valid input the reimbursement the call prints is >= 0.
\* The code has no floor: on 5- and 6-day trips in the SweetSpot and
\* SuperProductivity zones the multi-day cap takes back more than the schedule
\* gave (0.50 or 0.60 against 0.20 or 0.30 beyond 2000), so the receipt
\* component falls by 0.10 per dollar and the total goes below zero.
NonNegativeResult == pc = "done" => Out >= 0

\* C2, as claimed: with receipts >= 1500 the printed amount is at most
\* 1.5 * receipts.
CapOnPrintedAmount ==
    (pc = "done" /\ receipts >= D(1500)) => Out * CentU <= Pct(receipts, 150)

\* C2, amended: with receipts >= 1500 the total before the output conversion
\* is at most 1.5 * receipts, and the printed amount, being that total rounded
\* to the nearest cent, is at most half a cent above 1.5 * receipts.
CapBeforeRounding ==
    (Reached("print") /\ receipts >= D(1500)) =>
        /\ total <= Pct(receipts, 150)
        /\ pc = "done" => Out * CentU <= Pct(receipts, 150) + CentU \div 2

\* C2 witness: the cap fired on an odd number of cents and the output
\* conversion rounded the half cent up.
CapRoundedUp ==
    /\ pc = "done" /\ receipts >= D(1500)
    /\ uncapped > total
    /\ Out * CentU > Pct(receipts, 150)

\* C3: a call with days <= 0, miles < 0 or receipts < 0 stops at the range
\* check: no rule is evaluated, nothing is written to standard output, and the
\* process ends with a non-zero exit code.
RangeCheckFails ==
    (argc = 4 /\ numeric /\ (days <= 0 \/ miles < 0 \/ receipts < 0)) =>
        /\ pc \in {"start", "exit"}
        /\ stdout = << >>
        /\ base = 0 /\ mileage = 0 /\ receipt_component = 0 /\ total = 0
        /\ zone = "none"
        /\ pc = "exit" => exit_code = 1

\* C3 witness: a call with days = 0 has ended in the error outcome.
RangeCheckFailed ==
    argc = 4 /\ numeric /\ days = 0 /\ pc = "exit" /\ exit_code = 1

\* C4: a successful call writes exactly one item to standard output, the
\* number, whatever the environment.  The Standard branch also prints its
\* bucket breakdown to standard output when that is a terminal.
SingleNumberOnStdout ==
    pc = "done" => Len(stdout) = 1 /\ stdout[1].kind = "number"

\* C5: with receipts < 50, or days >= 10 and receipts/days < 15, the receipt
\* contribution (schedule plus multi-day correction) is exactly 0.  The
\* multi-day cap does not look at the near-zero rule: a trip of more than 100
\* days can have receipts > 1500 and receipts/days < 15.
NearZeroContributesNothing ==
    (Reached("overspend") /\ NearZero(days, receipts)) => sched + corr = 0

\* C6: two calls with identical arguments produce identical output.
SameInputSameOutput ==
    (prev.valid /\ SameTrip /\ pc = "done") =>
        stdout = prev.stdout /\ exit_code = prev.exit_code

\* C7: with days and receipts fixed, more miles in the same efficiency zone
\* never lower the reimbursement.
MoreMilesNeverLess ==
    (prev.valid /\ pc = "done" /\ prev.days = days /\ prev.receipts = receipts
     /\ prev.miles < miles /\ prev.zone = zone) => prev.total <= total

\* C8: with receipts not near zero, the Extreme branch (flat 0.10) is taken
\* exactly when miles/days > 1000; a trip with 900 < miles/days <= 1000,
\* miles/days = 1000 included, gets the HighEfficiency schedule.
ExtremeOnlyAbove1000 ==
    (Reached("five_day") /\ ~NearZero(days, receipts)) =>
        /\ zone = "Extreme" <=> miles > 1000 * days
        /\ zone = "Extreme" => sched = Pct(receipts, 10)
        /\ (miles > 900 * days /\ miles <= 1000 * days) =>
               /\ zone = "HighEfficiency"
               /\ sched = HighEfficiencySchedule(receipts)

\* C8 witness: a trip with exactly 1000 miles a day and receipts that count
\* went through the HighEfficiency branch.
Exactly1000IsHighEfficiency ==
    /\ pc = "done" /\ miles = 1000 * days /\ receipts >= D(50)
    /\ zone = "HighEfficiency"

\* C9: the first-match-wins rule of the Bound Enforcer, as the design states it
FirstMatchCap(t, d, r) ==
    IF r >= D(1500) THEN Min(t, Pct(r, 150))
    ELSE IF r >= D(1000) THEN Min(t, Pct(r, 200))
    ELSE IF r >= D(500) THEN Min(t, Pct(r, 250))
    ELSE IF r >= D(100) /\ r >= D(15) * d THEN Min(t, Pct(r, 400))
    ELSE t

\* C9: the chained conditions of the reasonableness check give exactly the
\* first-match-wins rule, and the check never raises the total.
BoundEnforcerFirstMatch ==
    Reached("print") =>
        /\ total = FirstMatchCap(uncapped, days, receipts)
        /\ total <= uncapped

\* C9 witness: a total above twice the receipts was cut by the second rule.
SecondCapCut ==
    /\ pc = "done" /\ receipts >= D(1000) /\ receipts < D(1500)
    /\ uncapped > total /\ total = Pct(receipts, 200)

\* C10: the three tiers, as slices of the miles
TierSum(m) ==
    Pct(D(Min(m, 100)), 58)
    + Pct(D(Min(IF m > 100 THEN m - 100 ELSE 0, 400)), 45)
    + Pct(D(IF m > 500 THEN m - 500 ELSE 0), 35)

\* C10: the mileage component is 0.58 a mile up to 100 miles, 0.45 from 100
\* to 500 and 0.35 beyond; it is 58 at 100 miles and 238 at 500; between two
\* calls it grows strictly with the miles, and by no more than 0.58 a mile
\* (no jump at a tier boundary).
MileageTiers ==
    Reached("receipts") =>
        /\ mileage = TierSum(miles)
        /\ miles = 100 => mileage = USD(58)
        /\ miles = 500 => mileage = USD(238)
        /\ (prev.valid /\ prev.miles < miles) =>
               /\ prev.mileage < mileage
               /\ mileage - prev.mileage <= Pct(D(miles - prev.miles), 58)

\* C10 witness: two calls on either side of the 100-mile boundary.
AcrossFirstTier ==
    /\ prev.valid /\ prev.miles = 100 /\ miles = 101 /\ Reached("receipts")
    /\ prev.mileage = USD(58)

\* C11: the bands of miles per day as the design lists them
StatedBand(z, d, m) ==
    IF z = "Extreme" THEN m > 1000 * d
    ELSE IF z = "SuperProductivity" THEN 600 * d <= m /\ m <= 900 * d
    ELSE IF z = "HighEfficiency"
         THEN (400 * d < m /\ m < 600 * d) \/ (900 * d < m /\ m <= 1000 * d)
    ELSE IF z = "SweetSpot" THEN 160 * d <= m /\ m < 400 * d
    ELSE IF z = "Standard" THEN 100 * d < m /\ m < 160 * d
    ELSE IF z = "LowEfficiency" THEN m <= 100 * d
    ELSE FALSE

\* C11, amended: the same bands, with SweetSpot closed at 400
ClosedBand(z, d, m) ==
    IF z = "SweetSpot" THEN 160 * d <= m /\ m <= 400 * d
    ELSE StatedBand(z, d, m)

ZoneNames == {"Extreme", "SuperProductivity", "HighEfficiency", "SweetSpot",
              "Standard", "LowEfficiency"}

\* C11, as claimed: every trip whose receipts count gets exactly one zone,
\* the stated band that contains its miles per day.
ZoneIsStatedBand ==
    (Reached("five_day") /\ ~NearZero(days, receipts)) =>
        /\ zone \in ZoneNames
        /\ \A z \in ZoneNames : StatedBand(z, days, miles) <=> z = zone

\* C11, amended: every trip whose receipts count gets exactly one zone, the
\* band that contains its miles per day, where SweetSpot is 160 <= mpd <= 400
\* (exactly 400 miles a day is SweetSpot; the stated bands leave it out).
ZoneIsClosedBand ==
    (Reached("five_day") /\ ~NearZero(days, receipts)) =>
        /\ zone \in ZoneNames
        /\ \A z \in ZoneNames : ClosedBand(z, days, miles) <=> z = zone

\* C11 witness: a trip with exactly 400 miles a day went through SweetSpot.
Exactly400IsSweetSpot ==
    /\ pc = "done" /\ miles = 400 * days /\ ~NearZero(days, receipts)
    /\ zone = "SweetSpot"

\* C12: the penalty as the design states it, in dollars
ClaimedPenalty(d, m, r) ==
    IF m >= 80 * d THEN 0
    ELSE CASE d = 1 /\ r < D(30) -> 40
           [] d = 1 /\ D(30) <= r /\ r < D(100) -> 20
           [] d = 2 /\ r < D(50) -> 20
           [] d \notin {1, 2} /\ r < D(30) -> 20
           [] OTHER -> 0

\* C12: the low-spend step takes exactly the stated penalty from the receipt
\* component: nothing at 80 miles a day or more; below that 40 or 20 for a
\* 1-day trip (receipts < 30, 30 <= receipts < 100), 20 for a 2-day trip with
\* receipts < 50, 20 for any other length with receipts < 30.  The call with
\* days=1, miles=50, receipts=10 prints 109.00.
LowSpendPenaltyRule ==
    /\ [](pc = "digit" =>
            receipt_component =
                MulPct(sched, FiveDayMultiplier(days, miles, receipts))
                - USD(ClaimedPenalty(days, miles, receipts)))
    /\ []((pc = "done" /\ days = 1 /\ miles = 50 /\ receipts = D(10)) =>
            Out = D(109))
    /\ [][pc = "low_spend" =>
            receipt_component' =
                receipt_component - USD(ClaimedPenalty(days, miles, receipts))]_vars

\* C12 witness: the call of scenario A lost 40 and printed 109.00.
ScenarioALost40 ==
    /\ pc = "done" /\ days = 1 /\ miles = 50 /\ receipts = D(10)
    /\ receipt_component = - USD(40)
    /\ Out = D(109)

\* C13: the multiplier of the 5-day adjustment as the design states it
ClaimedFiveDayMultiplier(d, m, r) ==
    CASE d = 5 /\ r <= D(150) * d /\ m >= 80 * d -> 110
      [] d = 5 /\ ~(r <= D(150) * d /\ m >= 80 * d) /\ r <= D(100) * d -> 105
      [] OTHER -> 100

\* C13: what the 5-day step leaves (75 more on the base exactly for days = 5,
\* the stated multiplier on the receipt component), and what the call with
\* days=5, miles=900, receipts=300 prints
FiveDayStateWith(printed) ==
    /\ pc = "low_spend" =>
           /\ base = BasePerDiem(days) + (IF days = 5 THEN USD(75) ELSE 0)
           /\ receipt_component =
                  MulPct(sched, ClaimedFiveDayMultiplier(days, miles, receipts))
    /\ (pc = "done" /\ days = 5 /\ miles = 900 /\ receipts = D(300)) =>
           Out = printed

\* C13: what the 5-day step does
FiveDayStep ==
    pc = "five_day" =>
        /\ base' = base + (IF days = 5 THEN USD(75) ELSE 0)
        /\ receipt_component' =
               MulPct(receipt_component,
                      ClaimedFiveDayMultiplier(days, miles, receipts))

\* C13, as claimed: the 5-day adjustment adds 75 to the base exactly for
\* days = 5 and multiplies the receipt component by 1.10, 1.05 or 1 as
\* stated, and scenario B prints 1052.00.
FiveDayRuleStated == FiveDayStateWith(D(1052))

\* C13, amended: the same adjustment, and scenario B prints 1192.00
\* (550 + 378 + 264: the mileage of 900 miles is 58 + 180 + 140 = 378).
FiveDayRule == [] FiveDayStateWith(D(1192)) /\ [][FiveDayStep]_vars

\* C13 witness: the call of scenario B got 75 on the base and 1.10 on its
\* receipts, and printed 1192.00.
ScenarioBPrinted1192 ==
    /\ pc = "done" /\ days = 5 /\ miles = 900 /\ receipts = D(300)
    /\ base = USD(550) /\ mileage = USD(378) /\ receipt_component = USD(264)
    /\ Out = D(1192)

\* C14: the bonus as the design states it, in units
ClaimedDigitBonus(r) ==
    IF r - 100 * (r \div 100) = 49 \/ r - 100 * (r \div 100) = 99
    THEN USD(8) ELSE 0

\* C14: the total of a call on which no overspend multiplier, override or cap
\* fired, with the digit-pattern rule left out
TotalWithoutDigitBonus ==
    base + mileage
    + MulPct(sched, FiveDayMultiplier(days, miles, receipts))
    - USD(LowSpendPenalty(days, miles, receipts))
    + (IF ReceiptHash(receipts, fpLow) = 1 THEN USD(10)
       ELSE IF ReceiptHash(receipts, fpLow) = 4 THEN - USD(5) ELSE 0)
    + corr

NothingLaterFired ==
    /\ OverspendMultiplier(days, miles, receipts) = 100
    /\ ~Softened(days, miles, receipts)
    /\ total = uncapped

\* C14: what the digit-pattern step does
DigitBonusStep ==
    pc = "digit" =>
        receipt_component' = receipt_component + ClaimedDigitBonus(receipts)

\* C14: the digit-pattern step adds exactly 8 to the receipt component when
\* the cents of the receipts are 49 or 99 and nothing otherwise; when no later
\* overspend multiplier, override or cap fires, the final total is the total
\* without the rule plus that bonus.
DigitBonusRule ==
    /\ []((Reached("print") /\ NothingLaterFired) =>
            total = TotalWithoutDigitBonus + ClaimedDigitBonus(receipts))
    /\ [][DigitBonusStep]_vars

\* C14 witness: a finished call with receipts ending in .49 on which nothing
\* later fired carries the 8.
BonusOf8InTotal ==
    /\ pc = "done" /\ receipts = 19949 /\ NothingLaterFired
    /\ total = TotalWithoutDigitBonus + USD(8)

\* C15: the step function of the design, band by band
ClaimedBase(d) ==
    CASE d = 1 -> USD(120)
      [] d \in 2..3 -> USD(105) * d
      [] d \in 4..6 -> USD(95) * d
      [] d \in 7..10 -> USD(85) * d
      [] d > 10 -> USD(75) * d

\* C15: once computed, and until the five-day rule touches it, the base per
\* diem is 120 for one day, 105 a day for 2..3 days, 95 a day for 4..6,
\* 85 a day for 7..10 and 75 a day above 10 days, and it is strictly positive.
BasePerDiemIsStepFunction ==
    pc \in {"mileage", "receipts", "five_day"} =>
        base = ClaimedBase(days) /\ base > 0

\* C15 witness: an 11-day trip has left the base step with 11 * 75 = 825.
ElevenDaysBase825 ==
    pc = "mileage" /\ days = 11 /\ base = USD(825)

\* C16, C17: the multi-day correction has run on a call it applies to
CorrectionFired ==
    Reached("overspend") /\ days >= 5 /\ receipts > D(MULTIDAY_RECEIPT_CAP)

\* C16: when days >= 5 and receipts > 1500, the schedule amount with the
\* correction equals the zone schedule's value at receipts = 1500 plus 0.20
\* of the excess over 1500.
ExcessAtFlatRate ==
    CorrectionFired =>
        sched + corr =
            ReceiptChain(days, miles, D(MULTIDAY_RECEIPT_CAP))
            + Pct(receipts - D(MULTIDAY_RECEIPT_CAP), MULTIDAY_POST_CAP_RATE)

\* C17: when days >= 5 and receipts > 1500, the corrected amount is at most
\* the amount the zone's schedule alone gave.
CorrectionNeverIncreases ==
    CorrectionFired => sched + corr <= sched

\* C18: the output of the receipt rules: zone schedule plus correction
ReceiptCalculator(d, m, r) ==
    ReceiptChain(d, m, r) + MultiDayCorrection(d, m, r)

\* C18: the width of the two adjacent slices of receipts that are compared
SliceWidth == D(1)

\* C18: with days and zone fixed, from receipts of 50 upward, the slice of
\* receipts just above the call's receipts earns no more than the slice of
\* the same width just below them.
DiminishingMarginalRate ==
    (/\ Reached("overspend")
     /\ receipts - SliceWidth >= D(50)
     /\ ~NearZero(days, receipts - SliceWidth)) =>
        ReceiptCalculator(days, miles, receipts + SliceWidth) - (sched + corr)
            <= (sched + corr)
               - ReceiptCalculator(days, miles, receipts - SliceWidth)

\* C19: the band of 400 above 1200 that line 75 prices at 0.40
InBandAbove1200(r) == r > D(1200) /\ r <= D(1200) + D(400)

\* C19: on a single-day SuperProductivity trip, receipts in the band above
\* 1200 earn 1.20 on the first 800, 0.90 on the next 400 and 0.40 on the
\* part above 1200.
SingleDayBandAt40 ==
    (/\ Reached("five_day") /\ zone = "SuperProductivity" /\ days = 1
     /\ InBandAbove1200(receipts)) =>
        sched = Pct(D(800), 120) + Pct(D(400), 90)
                + Pct(receipts - D(1200), 40)

\* C20: the part of r that lies between lo and hi
Slice(r, lo, hi) ==
    IF r <= lo THEN 0 ELSE IF r >= hi THEN hi - lo ELSE r - lo

\* C20: the part of r above lo
Above(r, lo) == IF r <= lo THEN 0 ELSE r - lo

\* C20: the schedule of the design, as rates on slices of the receipts
ClaimedSweetSpot(d, r) ==
    Pct(Slice(r, 0, D(600)), 80) + Pct(Slice(r, D(600), D(1200)), 65)
    + (IF d >= 7
       THEN Pct(Slice(r, D(1200), D(2000)), 60) + Pct(Above(r, D(2000)), 30)
       ELSE Pct(Slice(r, D(1200), D(2000)), 50) + Pct(Above(r, D(2000)), 20))

\* C20: in the SweetSpot zone receipts earn 0.80 up to 600 and 0.65 from 600
\* to 1200; above 1200 a trip of 7 or more days earns 0.60 up to 2000 then
\* 0.30, a shorter trip 0.50 up to 2000 then 0.20; at equal receipts the
\* schedule amount of a trip of 7 or more days is never below that of a
\* shorter trip.
SweetSpotRule ==
    (Reached("five_day") /\ zone = "SweetSpot") =>
        /\ sched = ClaimedSweetSpot(days, receipts)
        /\ \A short \in 1 .. 6 :
               \A long \in {7, 10, 11, 120} :
                   IF days >= 7
                   THEN sched >= SweetSpotSchedule(short, receipts)
                   ELSE sched <= SweetSpotSchedule(long, receipts)

\* C20 witness: a 7-day SweetSpot trip with receipts of 2500 has a schedule
\* amount of 480 + 390 + 480 + 150 = 1500, above the 1370 of a 6-day trip.
SevenDaysGetMore ==
    /\ pc = "done" /\ zone = "SweetSpot" /\ days = 7 /\ receipts = D(2500)
    /\ sched = USD(1500)
    /\ SweetSpotSchedule(6, receipts) = USD(1370)

\* C21: the sum of the slices the loop applied
RECURSIVE SumApplied(_)
SumApplied(dbg) ==
    IF dbg = << >> THEN 0 ELSE Head(dbg).apply + SumApplied(Tail(dbg))

\* C21: the bucketed amount of the design, as rates on slices of the receipts
ClaimedStandard(d, r) ==
    Pct(Slice(r, 0, D(400)), 65) + Pct(Slice(r, D(400), D(1000)), 45)
    + Pct(Above(r, D(1000)), IF d = 5 THEN 10 ELSE 25)

\* C21: in the Standard zone the bucket loop ends with nothing remaining, the
\* slices it applied sum to the receipts, and its result is 0.65 on the first
\* 400, 0.45 on the next 600 and 0.25 on the rest, 0.10 on the rest exactly
\* for 5-day trips.
BucketLoopConsumesAll ==
    (Reached("five_day") /\ zone = "Standard") =>
        LET loop == StandardSchedule(days, receipts)
        IN  /\ loop.remaining = 0
            /\ Len(loop.bucket_debug) \in 1 .. 3
            /\ SumApplied(loop.bucket_debug) = receipts
            /\ loop.receipt_component = sched
            /\ sched = ClaimedStandard(days, receipts)

\* C21 witness: a 5-day Standard trip with receipts of 2500 went through all
\* three buckets: 260 + 270 + 0.10 * 1500 = 680.
ThreeBucketsFiveDays ==
    /\ pc = "done" /\ zone = "Standard" /\ days = 5 /\ receipts = D(2500)
    /\ Len(StandardSchedule(days, receipts).bucket_debug) = 3
    /\ sched = USD(680)

\* C22: the combination the override is for, as the design states it
OverrideCase == days = 1 /\ miles > 1000 /\ receipts > D(1000)

\* C22: the amount the override sets
OverrideAmount == Pct(D(1000), 10) + Pct(receipts - D(1000), 40)

\* C22: what the override step does
OverrideStep ==
    pc = "soften" =>
        receipt_component' =
            IF OverrideCase THEN OverrideAmount ELSE receipt_component

\* C22: for days = 1, miles > 1000 and receipts > 1000 the receipt component
\* that enters the total is exactly 1000 * 0.10 + (receipts - 1000) * 0.40,
\* whatever the schedule and the earlier adjustments gave; for every other
\* input the override step leaves the receipt component unchanged.
OverrideRule ==
    /\ []((Reached("total") /\ OverrideCase) =>
            receipt_component = OverrideAmount)
    /\ []((Reached("check") /\ OverrideCase) =>
            uncapped = base + mileage + OverrideAmount)
    /\ [][OverrideStep]_vars

\* C22 witness: 1 day, 1001 miles, receipts 2500: the Extreme schedule gave
\* 250, the component that entered the total is 100 + 600 = 700.
OverrideSetTo700 ==
    /\ pc = "done" /\ days = 1 /\ miles = 1001 /\ receipts = D(2500)
    /\ sched = USD(250) /\ receipt_component = USD(700)
    /\ uncapped = base + mileage + USD(700)

\* C23: the multiplier of the design, in percent; receipts / days > x is
\* receipts > x * days
ClaimedOverspend(d, m, r) ==
    CASE d = 5 /\ r > D(200) * d -> 85
      [] d = 6 /\ r > D(120) * d -> 75
      [] d >= 7 /\ r > D(90) * d /\ m < 900 -> 65
      [] OTHER -> 100

\* C23: the trips the design says are never multiplied
NeverMultiplied == days \in 1 .. 4 \/ (days >= 7 /\ miles >= 900)

\* C23: the receipt component as it reaches the overspend step
ComponentBeforeOverspend ==
    TotalWithoutDigitBonus - base - mileage + ClaimedDigitBonus(receipts)

\* C23: what the overspend step does
OverspendStep ==
    pc = "overspend" =>
        /\ receipt_component' =
               IF ClaimedOverspend(days, miles, receipts) = 100
               THEN receipt_component
               ELSE MulPct(receipt_component,
                           ClaimedOverspend(days, miles, receipts))
        /\ NeverMultiplied => receipt_component' = receipt_component

\* C23: the receipt component is multiplied by 0.85 for days = 5 when
\* receipts / days > 200, by 0.75 for days = 6 when receipts / days > 120 and
\* by 0.65 for days >= 7 when receipts / days > 90 and miles < 900; trips of
\* 1 to 4 days and trips of 7 or more days with miles >= 900 are never
\* multiplied.
OverspendRule ==
    /\ [](pc = "soften" =>
            receipt_component =
                IF ClaimedOverspend(days, miles, receipts) = 100
                THEN ComponentBeforeOverspend
                ELSE MulPct(ComponentBeforeOverspend,
                            ClaimedOverspend(days, miles, receipts)))
    /\ [][OverspendStep]_vars

\* C23 witness: 7 days, 899 miles, receipts of 630.01 were multiplied by 0.65.
LongTripMultiplied ==
    /\ pc = "soften" /\ days = 7 /\ miles = 899 /\ receipts = D(90) * 7 + 1
    /\ receipt_component = MulPct(ComponentBeforeOverspend, 65)
    /\ receipt_component < ComponentBeforeOverspend

\* C24: the adjustment of the design; receipts are in cents, so
\* floor(receipts * 100) of the design is the number of cents itself
ClaimedCalendar(r) ==
    IF r % 7 = 1 THEN USD(10) ELSE IF r % 7 = 4 THEN - USD(5) ELSE 0

\* C24: with hash = floor(receipts * 100) mod 7, the calendar step has added
\* exactly 10 for hash 1, taken exactly 5 for hash 4 and changed nothing
\* otherwise, whatever the days and miles.
CalendarByReceiptHash ==
    pc = "multiday" =>
        receipt_component =
            MulPct(sched, FiveDayMultiplier(days, miles, receipts))
            - USD(LowSpendPenalty(days, miles, receipts))
            + ClaimedDigitBonus(receipts)
            + ClaimedCalendar(receipts)

\* C25: once the arguments are parsed and in range, the call never ends in
\* an error: every path through the rules leads to the printed total.
ValidatedCallNeverFails ==
    (argc = 4 /\ numeric /\ InRange) => (pc # "exit" /\ exit_code # 1)

\* C26: when days >= 5 and receipts > 1500, the guard of the correction that
\* selects the rate to take back is that of the zone whose schedule computed
\* the receipt component.
CorrectionInSameZone ==
    CorrectionFired => LastRateZone(days, miles) = zone

\* C27: what the calendar step adds
CalendarAmount ==
    IF ReceiptHash(receipts, fpLow) = 1 THEN USD(10)
    ELSE IF ReceiptHash(receipts, fpLow) = 4 THEN - USD(5) ELSE 0

\* C27: the receipt component in the order of the design: the correction
\* inside the receipt calculation, then the five-day multiplier, the low-spend
\* penalty, the digit bonus and the calendar adjustment
DesignOrderComponent ==
    MulPct(sched + MultiDayCorrection(days, miles, receipts),
           FiveDayMultiplier(days, miles, receipts))
    - USD(LowSpendPenalty(days, miles, receipts))
    + ClaimedDigitBonus(receipts)
    + CalendarAmount

\* C27: the steps after the correction, applied to a receipt component x
AfterCorrection(x) ==
    IF Softened(days, miles, receipts) THEN OverrideAmount
    ELSE MulPct(x, OverspendMultiplier(days, miles, receipts))

NoJumpAtTierBoundary ==
    (Reached("five_day") /\ receipts >= D(50) /\ zone # "Ignored") =>
        /\ ReceiptChain(days, miles, receipts + 1) - sched >= 0
        /\ ReceiptChain(days, miles, receipts + 1) - sched <= Pct(1, 120)

\* ------------------------------------------ the rule-based variant scripts
\* src/experiments/rule-based-variants: calculate_reimbursement_optimized.py,
\* calculate_reimbursement_pure.py and calculate_reimbursement_fixed.py. The
\* arithmetic of the pure and the fixed variant (logarithms, squares) is not
\* modelled: their calls are followed for the arguments their main() rejects.
Optimized == "calculate_reimbursement_optimized"
Variants == {Optimized, "calculate_reimbursement_pure",
             "calculate_reimbursement_fixed"}

Max(a, b) == IF a >= b THEN a ELSE b

\* optimized, lines 15-29: calculate_reimbursement before the rounding
OptimizedReimbursement(d, m, r) ==
    IF d <= 0 \/ m < 0 \/ r < 0 THEN 0
    ELSE LET base_amount == d * USD(80) + Pct(D(m), 50) + Pct(r, 50)
             min_amount == d * USD(50)
             max_amount == d * USD(300) + r * CentU
         IN  Min(Max(base_amount, min_amount), max_amount)

InitVariants ==
    /\ program \in Variants
    /\ \/ InvalidArgv
       \/ /\ program = Optimized
          /\ ValidArgv /\ days \in PairDays /\ receipts \in PairReceipts
    /\ isatty = FALSE /\ halfUp \in BOOLEAN
    /\ fpLow = FALSE /\ overflows = FALSE
    /\ Fresh
    /\ prev = NoPrev /\ trip_type = "none"

\* optimized 34-36, pure 157-159, fixed 88-90: wrong number of arguments
VariantUsage ==
    /\ pc = "start" /\ argc # 4
    /\ stdout' = Append(stdout, [kind |-> "usage", cents |-> 0])
    /\ exit_code' = 1
    /\ pc' = "exit"
    /\ UNCHANGED <<args, env, ghosts, prev, labels, base, mileage,
                   receipt_component, total>>

\* optimized 46-48, pure 170-172, fixed 101-103: int() or float() raises
VariantFormatError ==
    /\ pc = "start" /\ argc = 4 /\ ~numeric
    /\ stdout' = Append(stdout, [kind |-> "error", cents |-> 0])
    /\ exit_code' = 1
    /\ pc' = "exit"
    /\ UNCHANGED <<args, env, ghosts, prev, labels, base, mileage,
                   receipt_component, total>>

\* pure 166-168, fixed 97-99: main() tests the range itself
VariantRangeError ==
    /\ pc = "start" /\ argc = 4 /\ numeric
    /\ program # Optimized
    /\ days <= 0 \/ miles < 0 \/ receipts < 0
    /\ stdout' = Append(stdout, [kind |-> "error", cents |-> 0])
    /\ exit_code' = 1
    /\ pc' = "exit"
    /\ UNCHANGED <<args, env, ghosts, prev, labels, base, mileage,
                   receipt_component, total>>

\* optimized 39-43 with 31: the result, rounded to cents
OptimizedCalculate ==
    /\ pc = "start" /\ argc = 4 /\ numeric
    /\ program = Optimized
    /\ total' = CentU * Format2f(OptimizedReimbursement(days, miles, receipts),
                                 halfUp)
    /\ pc' = "print"
    /\ UNCHANGED <<args, env, ghosts, prev, labels, base, mileage,
                   receipt_component, stdout, exit_code>>

\* optimized 44, and the normal end of the process
OptimizedPrint ==
    /\ pc = "print"
    /\ program = Optimized
    /\ stdout' = Append(stdout, [kind |-> "number",
                                 cents |-> Format2f(total, halfUp)])
    /\ exit_code' = 0
    /\ pc' = "done"
    /\ UNCHANGED <<args, env, ghosts, prev, labels, base, mileage,
                   receipt_component, total>>

NextVariants ==
    \/ VariantUsage \/ VariantFormatError \/ VariantRangeError
    \/ OptimizedCalculate \/ OptimizedPrint

SpecVariants == InitVariants /\ [][NextVariants]_vars

\* C29: in the rule-based variants, arguments that violate days > 0,
\* miles >= 0, receipts >= 0 never give a number on standard output with a
\* success exit.
InvalidInputSurfaced ==
    (program \in Variants /\ argc = 4 /\ numeric /\ ~InRange) =>
        ~(/\ exit_code = 0
          /\ \E i \in 1 .. Len(stdout) : stdout[i].kind = "number")

\* ------------------------------------------------- the metadata variant
\* src/solution/calculate_reimbursement_metadata.py asks
\* analysis-scripts/metadata_reconstructor.py for the trip type.
Metadata == "calculate_reimbursement_metadata"

\* metadata_reconstructor.py lines 153-167: _classify_trip_type(self, days,
\* receipts_per_day, miles), parameters by the names of the def; the two
\* amounts are numerators over the common denominator den
classify_trip_type(d, receipts_per_day, miles_, den) ==
    IF d = 1 /\ miles_ > 400 * den THEN "day_trip_intensive"
    ELSE IF d >= 7 /\ receipts_per_day < 50 * den THEN "extended_project"
    ELSE IF receipts_per_day > 200 * den /\ d <= 3 THEN "client_meeting"
    ELSE IF d >= 5 /\ receipts_per_day > 150 * den THEN "conference"
    ELSE IF miles_ > 800 * den /\ d <= 5 THEN "territory_coverage"
    ELSE "standard_business"

\* metadata_reconstructor.py line 95: the call passes (days, miles,
\* receipts_per_day) by position; miles is miles * 100 * days over
\* 100 * days, receipts_per_day is the cents of receipts over 100 * days
reconstruct_trip_type(d, m, r) ==
    classify_trip_type(d, m * 100 * d, r, 100 * d)

InitMetadata ==
    /\ program = Metadata
    /\ ValidArgv
    /\ isatty = FALSE /\ halfUp = FALSE
    /\ fpLow = FALSE /\ overflows = FALSE
    /\ Fresh
    /\ prev = NoPrev /\ trip_type = "none"

\* calculate_reimbursement_metadata.py line 21 with line 86, through
\* metadata_reconstructor.py line 95
ReconstructMetadata ==
    /\ pc = "start"
    /\ trip_type' = reconstruct_trip_type(days, miles, receipts)
    /\ pc' = "metadata"
    /\ UNCHANGED <<args, env, ghosts, prev, base, mileage, receipt_component,
                   total, stdout, exit_code>>

NextMetadata == ReconstructMetadata

SpecMetadata == InitMetadata /\ [][NextMetadata]_vars

\* C30: the trip is labelled day_trip_intensive exactly when days = 1 and
\* miles > 400, and extended_project exactly when that does not hold and
\* days >= 7 and receipts per day < 50.
TripTypeOnNamedQuantities ==
    pc = "metadata" =>
        /\ trip_type = "day_trip_intensive" <=> (days = 1 /\ miles > 400)
        /\ trip_type = "extended_project" <=>
               /\ ~(days = 1 /\ miles > 400)
               /\ days >= 7 /\ receipts < D(50) * days

=============================================================================
